---- MODULE Spec2Model ----
(***************************************************************************)
(* A model of captions.py: the image-record extractor                      *)
(* (get_image_data_from_html and its helpers) and the main pipeline        *)
(* (page list -> fetch -> extract -> filter -> render).                    *)
(*                                                                         *)
(* Representation.                                                         *)
(*   - A Python str is a sequence of one-character strings, so that        *)
(*     slicing (str[2:]), prefix tests and lower() are computed.           *)
(*   - Optional[X] is a sequence of length <= 1: None is << >> and a       *)
(*     present value x is <<x>>.                                           *)
(*   - A dict is a function whose DOMAIN is the set of keys present.       *)
(*   - A parsed document is a tree of nodes (text nodes and elements with  *)
(*     a name, an attribute dict and a sequence of children); an element   *)
(*     is addressed by its path of child indexes from the root <html>.     *)
(*   - A raised exception is a result record with ok = FALSE.              *)
(***************************************************************************)
EXTENDS Integers, Sequences, FiniteSets, TLC

VARIABLES args, pages, idx, data, hist, stdout, pc, html, page, result

vars == <<args, pages, idx, data, hist, stdout, pc, html, page, result>>

(***************************************************************************)
(* Bounds of the model.                                                    *)
(***************************************************************************)
MaxPages == 3
MaxMarkers == 2

(***************************************************************************)
(* Python values.                                                          *)
(***************************************************************************)
None == << >>

Some(x) == <<x>>

EmptyDict == [k \in {} |-> << >>]

\* dict.get(key): the value, or None
DictGet(d, key) == IF key \in DOMAIN d THEN Some(d[key]) ELSE None

\* d[key] = value
DictSet(d, key, value) == [k \in DOMAIN d \cup {key} |-> IF k = key THEN value ELSE d[k]]

\* truth value of an Optional[str]: neither None nor ""
Truthy(o) == o # None /\ o[1] # << >>

\* s[n:]
SliceFrom(s, n) == SubSeq(s, n + 1, Len(s))

\* s.startswith(prefix)
StartsWith(s, prefix) == Len(s) >= Len(prefix) /\ SubSeq(s, 1, Len(prefix)) = prefix

Upper == <<"A", "B", "C", "D", "E", "F", "G", "H", "I", "J", "K", "L", "M", "N", "O", "P", "Q", "R", "S", "T", "U", "V", "W", "X", "Y", "Z">>

LowerC == <<"a", "b", "c", "d", "e", "f", "g", "h", "i", "j", "k", "l", "m", "n", "o", "p", "q", "r", "s", "t", "u", "v", "w", "x", "y", "z">>

LowerChar(c) == IF \E i \in 1..Len(Upper) : Upper[i] = c THEN LowerC[CHOOSE i \in 1..Len(Upper) : Upper[i] = c] ELSE c

\* s.lower()
StrLower(s) == [i \in 1..Len(s) |-> LowerChar(s[i])]

\* s.replace("\n", " ")
ReplaceNewlines(s) == [i \in 1..Len(s) |-> IF s[i] = "\n" THEN " " ELSE s[i]]

(***************************************************************************)
(* String constants of the program.                                        *)
(***************************************************************************)
MwImage == <<"m", "w", ":", "I", "m", "a", "g", "e">>

MwImagePrefix == <<"m", "w", ":", "I", "m", "a", "g", "e", "/">>

MwTransclusion == <<"m", "w", ":", "T", "r", "a", "n", "s", "c", "l", "u", "s", "i", "o", "n">>

CommonsPrefix == <<"/", "/", "u", "p", "l", "o", "a", "d", ".", "w", "i", "k", "i", "m", "e", "d", "i", "a", ".", "o", "r", "g", "/", "w", "i", "k", "i", "p", "e", "d", "i", "a", "/", "c", "o", "m", "m", "o", "n", "s", "/">>

ImageStr == <<"i", "m", "a", "g", "e">>

BlockStr == <<"b", "l", "o", "c", "k">>

InlineStr == <<"i", "n", "l", "i", "n", "e">>

CaptionKey == <<"c", "a", "p", "t", "i", "o", "n">>

(***************************************************************************)
(* The document tree (what BeautifulSoup builds).                          *)
(***************************************************************************)
Txt(s) == [kind |-> "text", name |-> "", attrs |-> EmptyDict, children |-> << >>, text |-> s]

El(n, a, c) == [kind |-> "element", name |-> n, attrs |-> a, children |-> c, text |-> << >>]

RECURSIVE NodeAt(_, _)
\* the node at a path of child indexes
NodeAt(node, path) == IF path = << >> THEN node ELSE NodeAt(node.children[Head(path)], Tail(path))

RECURSIVE ElementPaths(_, _)
RECURSIVE ChildElementPaths(_, _, _)
\* the paths of the elements of a subtree, the subtree's own root first, in
\* document order
ElementPaths(node, path) == IF node.kind = "text" THEN << >> ELSE <<path>> \o ChildElementPaths(node, path, 1)

ChildElementPaths(node, path, i) == IF i > Len(node.children) THEN << >> ELSE ElementPaths(node.children[i], Append(path, i)) \o ChildElementPaths(node, path, i + 1)

\* the paths of the proper descendants of the element at `path`
DescendantPaths(root, path) == Tail(ElementPaths(NodeAt(root, path), path))

\* tag.select_one(name): the first descendant element with that tag name
SelectOne(tag, name) == LET ps == SelectSeq(DescendantPaths(tag, << >>), LAMBDA p : NodeAt(tag, p).name = name) IN IF ps = << >> THEN None ELSE Some(NodeAt(tag, Head(ps)))

\* [typeof="mw:Image"],[typeof^="mw:Image/"]
IsImageMarker(el) == "typeof" \in DOMAIN el.attrs /\ (el.attrs["typeof"] = MwImage \/ StartsWith(el.attrs["typeof"], MwImagePrefix))

\* soup.select(...): every matching element of the document, in document order
SelectImageMarkers(root) == SelectSeq(ElementPaths(root, << >>), LAMBDA p : IsImageMarker(NodeAt(root, p)))

\* [typeof="mw:Transclusion"], [about]
IsTransclusionOrAbout(el) == ("typeof" \in DOMAIN el.attrs /\ el.attrs["typeof"] = MwTransclusion) \/ "about" \in DOMAIN el.attrs

RECURSIVE Closest(_, _)
\* soupsieve.closest: the element itself or its nearest ancestor that matches,
\* None when nothing up to and including the root matches
Closest(root, path) == IF IsTransclusionOrAbout(NodeAt(root, path)) THEN Some(NodeAt(root, path)) ELSE IF path = << >> THEN None ELSE Closest(root, SubSeq(path, 1, Len(path) - 1))

\* Tag.string: the single text child, looked for through single element children
RECURSIVE TagString(_)
TagString(el) == IF Len(el.children) # 1 THEN None ELSE IF el.children[1].kind = "text" THEN Some(el.children[1].text) ELSE TagString(el.children[1])

RECURSIVE StripTags(_)
\* Soup(s, "lxml").get_text() of a string holding text and well-formed tags:
\* every <...> is dropped, a "<" that is never closed stays text
StripTags(s) == IF s = << >> THEN << >> ELSE IF Head(s) = "<" /\ \E j \in 2..Len(s) : s[j] = ">" THEN StripTags(SliceFrom(s, CHOOSE j \in 2..Len(s) : s[j] = ">" /\ \A k \in 2..(j - 1) : s[k] # ">")) ELSE <<Head(s)>> \o StripTags(Tail(s))

(***************************************************************************)
(* JSON text (the data-mw attribute) is a sequence of tokens; json_loads    *)
(* accepts an object of string members or an empty array.                  *)
(***************************************************************************)
Tok(t) == [t |-> t, v |-> << >>]

Str(v) == [t |-> "str", v |-> v]

\* the tokens between the braces
JsonBody(toks) == SubSeq(toks, 2, Len(toks) - 1)

JsonIsObject(toks) == /\ Len(toks) >= 2
                      /\ toks[1].t = "{"
                      /\ toks[Len(toks)].t = "}"
                      /\ LET b == JsonBody(toks) IN
                         \/ b = << >>
                         \/ /\ (Len(b) + 1) % 4 = 0
                            /\ \A i \in 1..Len(b) : b[i].t = (CASE i % 4 = 1 -> "str" [] i % 4 = 2 -> ":" [] i % 4 = 3 -> "str" [] OTHER -> ",")

JsonIsArray(toks) == Len(toks) = 2 /\ toks[1].t = "[" /\ toks[2].t = "]"

\* the dict of an object's members; of two members with one key the later wins
JsonMembers(toks) == LET b == JsonBody(toks)
                         n == (Len(b) + 1) \div 4
                         keys == {b[4 * (k - 1) + 1].v : k \in 1..n}
                         last(key) == CHOOSE k \in 1..n : b[4 * (k - 1) + 1].v = key /\ \A m \in (k + 1)..n : b[4 * (m - 1) + 1].v # key
                     IN [key \in keys |-> b[4 * (last(key) - 1) + 3].v]

\* json.loads
json_loads(toks) == IF JsonIsObject(toks) THEN [ok |-> TRUE, kind |-> "dict", items |-> JsonMembers(toks)] ELSE IF JsonIsArray(toks) THEN [ok |-> TRUE, kind |-> "list", items |-> EmptyDict] ELSE [ok |-> FALSE, kind |-> "JSONDecodeError", items |-> EmptyDict]

(***************************************************************************)
(* Results: a returned value, or the exception that was raised.            *)
(***************************************************************************)
NoError == [type |-> "", detail |-> "", tag |-> "", page |-> << >>]

\* an exception: its type, what its message is about, and the tag name and the
\* page title the "Unexpected tag" message carries
Error(type, detail, tag, title) == [type |-> type, detail |-> detail, tag |-> tag, page |-> title]

Return(value) == [ok |-> TRUE, value |-> value, error |-> NoError]

Raise(err) == [ok |-> FALSE, value |-> << >>, error |-> err]

(***************************************************************************)
(* captions.py                                                             *)
(***************************************************************************)
\* get_attrib(tag, selector, attrib); selector is None or Some(tag name)
get_attrib(tag, selector, attrib) == LET t == IF selector # None THEN SelectOne(tag, selector[1]) ELSE Some(tag) IN IF t # None THEN DictGet(t[1].attrs, attrib) ELSE None

\* remove_dot(str)
remove_dot(str) == IF Truthy(str) THEN Some(SliceFrom(str[1], 2)) ELSE str

\* line 70: the text after "mw:Image/", lower-cased, or "image"
ImageType(tag) == LET suffix == StrLower(SliceFrom(tag.attrs["typeof"], Len(MwImagePrefix))) IN IF suffix # << >> THEN suffix ELSE ImageStr

\* line 76, when closest() finds an element
FromTemplate(closest) == closest[1].name # "html"

\* lines 67-77: the dict literal; needs Closest(root, path) # None
ItemBase(root, path) == LET tag == NodeAt(root, path) IN
    [k \in {"filename", "position", "type", "width", "height", "orig-width", "orig-height", "mediatype", "from_template"} |->
        CASE k = "filename" -> remove_dot(get_attrib(tag, Some("img"), "resource"))
          [] k = "position" -> IF tag.name = "figure" THEN BlockStr ELSE InlineStr
          [] k = "type" -> ImageType(tag)
          [] k = "width" -> get_attrib(tag, Some("img"), "width")
          [] k = "height" -> get_attrib(tag, Some("img"), "height")
          [] k = "orig-width" -> get_attrib(tag, Some("img"), "data-file-width")
          [] k = "orig-height" -> get_attrib(tag, Some("img"), "data-file-height")
          [] k = "mediatype" -> get_attrib(tag, Some("img"), "data-file-type")
          [] OTHER -> FromTemplate(Closest(root, path))]

\* lines 81-85: the caption of a span, from its data-mw attribute
SpanCaption(tag) == LET attribs == get_attrib(tag, None, "data-mw") IN
    IF ~Truthy(attribs) THEN Return(None)
    ELSE LET parsed == json_loads(attribs[1]) IN
         IF ~parsed.ok THEN Raise(Error("JSONDecodeError", "data-mw", "", << >>))
         ELSE IF parsed.kind # "dict" THEN Raise(Error("TypeError", "caption", "", << >>))
         ELSE IF CaptionKey \notin DOMAIN parsed.items THEN Raise(Error("KeyError", "caption", "", << >>))
         ELSE IF parsed.items[CaptionKey] # << >> THEN Return(Some(parsed.items[CaptionKey])) ELSE Return(None)

\* lines 87-89: the caption of a figure, from its figcaption
FigureCaption(tag) == LET figcaption == SelectOne(tag, "figcaption") IN
    IF figcaption # None /\ Truthy(TagString(figcaption[1])) THEN Return(TagString(figcaption[1])) ELSE Return(None)

\* UnexpectedTag without the raise: the element is taken as having no caption
UnexpectedTagSkipped(tag, title) == Return(None)

\* lines 90-91
UnexpectedTag(tag, title) == Raise(Error("Exception", "Unexpected tag", tag.name, title))

\* lines 79-91: Optional caption markup, or the exception raised
RawCaption(tag, title) == IF tag.name = "span" THEN SpanCaption(tag) ELSE IF tag.name = "figure" \/ tag.name = "figure-inline" THEN FigureCaption(tag) ELSE UnexpectedTag(tag, title)

\* lines 92-93
WithCaption(item, caption) == IF Truthy(caption) THEN DictSet(item, "caption", ReplaceNewlines(StripTags(caption[1]))) ELSE item

\* lines 95-97
WithAlt(item, tag) == LET alt == get_attrib(tag, Some("img"), "alt") IN IF alt # None THEN DictSet(item, "alt", alt[1]) ELSE item

\* lines 99-101
WithLink(item, tag) == LET link == remove_dot(get_attrib(tag, Some("a"), "href")) IN IF link # item["filename"] THEN DictSet(item, "link", link) ELSE item

\* lines 67-106: one iteration of the loop, the record appended or the
\* exception raised
ItemData(root, path, title) == LET tag == NodeAt(root, path) IN
    IF Closest(root, path) = None THEN Raise(Error("AttributeError", "name", "", << >>))
    ELSE LET caption == RawCaption(tag, title) IN
         IF ~caption.ok THEN caption
         ELSE LET item == WithLink(WithAlt(WithCaption(ItemBase(root, path), caption.value), tag), tag)
                  src == get_attrib(tag, Some("img"), "src")
              IN IF src = None THEN Raise(Error("AttributeError", "startswith", "", << >>))
                 ELSE Return(DictSet(item, "from_commons", StartsWith(src[1], CommonsPrefix)))

RECURSIVE ExtractLoop(_, _, _, _)
\* lines 64-107: the loop over the matched elements; an exception ends it and
\* nothing is returned
ExtractLoop(root, paths, title, acc) == IF paths = << >> THEN Return(acc) ELSE LET r == ItemData(root, Head(paths), title) IN IF ~r.ok THEN r ELSE ExtractLoop(root, Tail(paths), title, Append(acc, r.value))

\* get_image_data_from_html(html, page): html is the tree lxml parses the
\* document text to
get_image_data_from_html(root, title) == ExtractLoop(root, SelectImageMarkers(root), title, << >>)

(***************************************************************************)
(* The documents the model runs on: Parsoid-style image markup.            *)
(***************************************************************************)
MwImageThumb == <<"m", "w", ":", "I", "m", "a", "g", "e", "/", "T", "h", "u", "m", "b">>

MwImageFrameless == <<"m", "w", ":", "I", "m", "a", "g", "e", "/", "F", "r", "a", "m", "e", "l", "e", "s", "s">>

SrcCommons == <<"/", "/", "u", "p", "l", "o", "a", "d", ".", "w", "i", "k", "i", "m", "e", "d", "i", "a", ".", "o", "r", "g", "/", "w", "i", "k", "i", "p", "e", "d", "i", "a", "/", "c", "o", "m", "m", "o", "n", "s", "/", "c", ".", "j", "p", "g">>

SrcLocal == <<"/", "/", "u", "p", "l", "o", "a", "d", ".", "w", "i", "k", "i", "m", "e", "d", "i", "a", ".", "o", "r", "g", "/", "w", "i", "k", "i", "p", "e", "d", "i", "a", "/", "e", "n", "/", "c", ".", "j", "p", "g">>

DotCat == <<".", "/", "C", "a", "t", ".", "j", "p", "g">>

CatJpg == <<"C", "a", "t", ".", "j", "p", "g">>

DotDog == <<".", "/", "D", "o", "g", ".", "j", "p", "g">>

ExtUrl == <<"/", "/", "x", ".", "o", "r", "g">>

ACat == <<"A", " ", "c", "a", "t", ".">>

ACatNap == <<"A", " ", "c", "a", "t", "\n", "n", "a", "p">>

CapMarkup == <<"A", " ", "<", "b", ">", "c", "a", "t", "<", "/", "b", ">", "\n", "n", "a", "p">>

Mwt1 == <<"#", "m", "w", "t", "1">>

PageUri == <<"/", "/", "w", "/", "A">>

W220 == <<"2", "2", "0">>

AltCat == <<"c", "a", "t">>

TitleA == <<"A">>

TitleB == <<"B">>

Titles == {TitleA, TitleB}

\* an attribute dict of the attributes that are present
Attr(name, value) == IF value = None THEN EmptyDict ELSE name :> value[1]

Img(resource, src, alt) == El("img", Attr("resource", resource) @@ Attr("src", src) @@ Attr("alt", alt) @@ Attr("width", Some(W220)), << >>)

Anchor(href, children) == El("a", Attr("href", href), children)

Figcaption(children) == El("figcaption", EmptyDict, children)

\* an element with a typeof attribute: the image markers, and elements of
\* other shapes carrying the marker's typeof
Marker(name, typeof, about, datamw, children) == El(name, Attr("typeof", Some(typeof)) @@ Attr("about", about) @@ Attr("data-mw", datamw), children)

\* what encloses a marker: nothing, or elements between it and <body>
Wrap(kind, node) == CASE kind = "none" -> node
                      [] kind = "plain" -> El("div", EmptyDict, <<node>>)
                      [] kind = "about" -> El("div", Attr("about", Some(Mwt1)), <<node>>)
                      [] kind = "transclusion" -> El("span", Attr("typeof", Some(MwTransclusion)), <<node>>)
                      [] kind = "plain-in-about" -> El("div", Attr("about", Some(Mwt1)), <<El("div", EmptyDict, <<node>>)>>)
                      [] OTHER -> El("div", EmptyDict, <<El("div", EmptyDict, <<node>>)>>)

WrapKinds == {"none", "plain", "about", "transclusion", "plain-in-about", "plain-in-plain"}

\* the document lxml builds: <html> (with Parsoid's about attribute, or bare),
\* <head>, and <body> around the content
Document(rootAbout, content) == El("html", Attr("about", rootAbout), <<El("head", EmptyDict, << >>), El("body", EmptyDict, content)>>)

RootAbouts == {None, Some(PageUri)}

TagNames == {"span", "figure", "figure-inline", "div"}

JsonObject(key, value) == <<Tok("{"), Str(key), Tok(":"), Str(value), Tok("}")>>

\* data-mw: absent, empty, malformed, {}, an object without a caption member,
\* captions that are empty, plain and marked up, a repeated member, an array
DataMws == {None, Some(<< >>), Some(<<Tok("{")>>), Some(<<Tok("{"), Tok("}")>>), Some(JsonObject(AltCat, ACat)), Some(JsonObject(CaptionKey, << >>)), Some(JsonObject(CaptionKey, ACat)), Some(JsonObject(CaptionKey, CapMarkup)), Some(<<Tok("{"), Str(CaptionKey), Tok(":"), Str(<< >>), Tok(","), Str(CaptionKey), Tok(":"), Str(ACat), Tok("}")>>), Some(<<Tok("["), Tok("]")>>)}

\* figcaption: absent, empty, one text node, one text node with a newline,
\* one element around a text node, and text mixed with a link
Figcaptions == {<< >>, <<Figcaption(<< >>)>>, <<Figcaption(<<Txt(ACat)>>)>>, <<Figcaption(<<Txt(ACatNap)>>)>>, <<Figcaption(<<El("b", EmptyDict, <<Txt(ACat)>>)>>)>>, <<Figcaption(<<Txt(<<"A", " ">>), Anchor(Some(DotDog), <<Txt(AltCat)>>), Txt(<<".">>)>>)>>}

StdImg == Img(Some(DotCat), Some(SrcCommons), Some(AltCat))

\* markers that differ in where the caption comes from
CaptionMarkers == {Marker(n, MwImageThumb, None, mw, <<Anchor(Some(DotCat), <<StdImg>>)>> \o fc) : n \in TagNames, mw \in DataMws, fc \in Figcaptions}

\* markers that differ in type and provenance, in each enclosure
ProvenanceMarkers == {Wrap(w, Marker(n, t, a, None, <<Anchor(Some(DotCat), <<StdImg>>)>>)) : w \in WrapKinds, n \in {"span", "figure"}, t \in {MwImage, MwImageThumb, MwImageFrameless}, a \in {None, Some(Mwt1)}}

Resources == {None, Some(<< >>), Some(DotCat), Some(CatJpg), Some(DotDog)}

Hrefs == {None, Some(<< >>), Some(DotCat), Some(CatJpg), Some(DotDog), Some(ExtUrl)}

Imgs == {<< >>} \cup {<<Img(r, s, a)>> : r \in Resources, s \in {None, Some(SrcCommons), Some(SrcLocal)}, a \in {None, Some(<< >>), Some(AltCat)}}

\* markers that differ in the image, the anchor and their attributes
LinkMarkers == {Marker(n, MwImage, None, None, i) : n \in {"span", "figure"}, i \in Imgs} \cup {Marker(n, MwImage, None, None, <<Anchor(h, i)>>) : n \in {"span", "figure"}, h \in Hrefs, i \in Imgs}

\* the markers documents of several markers are made of: a figure, a span, a
\* figure from a template, an element of another shape, a figure that has no
\* image, a span whose data-mw is malformed
BasicMarkers == {Marker("figure", MwImageThumb, None, None, <<Anchor(Some(DotCat), <<StdImg>>), Figcaption(<<Txt(ACat)>>)>>),
                 Marker("span", MwImage, None, Some(JsonObject(CaptionKey, ACat)), <<Anchor(Some(DotDog), <<Img(Some(DotDog), Some(SrcLocal), None)>>)>>),
                 Wrap("about", Marker("figure", MwImage, None, None, <<Anchor(Some(DotCat), <<StdImg>>)>>)),
                 Marker("div", MwImage, None, None, <<StdImg>>),
                 Marker("figure", MwImage, None, None, << >>),
                 Marker("span", MwImage, None, Some(<<Tok("{")>>), <<StdImg>>)}

\* sequences of 0 to n basic markers
RECURSIVE MarkerSeqs(_)
MarkerSeqs(n) == IF n = 0 THEN {<< >>} ELSE LET shorter == MarkerSeqs(n - 1) IN shorter \cup {Append(q, m) : q \in shorter, m \in BasicMarkers}

\* the documents the extractor is run on: every document of one marker, and
\* every document of up to MaxMarkers basic markers
Docs == {Document(r, <<m>>) : r \in RootAbouts, m \in CaptionMarkers \cup ProvenanceMarkers \cup LinkMarkers} \cup {Document(r, q) : r \in RootAbouts, q \in MarkerSeqs(MaxMarkers)}

(***************************************************************************)
(* main: the filter, the mapping from page title to records, the renderers *)
(***************************************************************************)
\* FilterTemplates with the test of line 168 inverted
FilterTemplatesInverted(page_data, ignore_templates) == IF ignore_templates THEN SelectSeq(page_data, LAMBDA item : item["from_template"]) ELSE page_data

\* line 168: the list comprehension, when --ignore-templates is set
FilterTemplates(page_data, ignore_templates) == IF ignore_templates THEN SelectSeq(page_data, LAMBDA item : ~item["from_template"]) ELSE page_data

\* DictAssign on a list of pairs instead of a dict: every assignment adds a pair
DictAppend(d, key, value) == Append(d, [page |-> key, records |-> value])

\* data[key] = value on a dict, which keeps insertion order: a new key goes
\* last, a key already present keeps its place and takes the new value
DictAssign(d, key, value) == IF \E i \in 1..Len(d) : d[i].page = key THEN [i \in 1..Len(d) |-> IF d[i].page = key THEN [page |-> key, records |-> value] ELSE d[i]] ELSE Append(d, [page |-> key, records |-> value])

\* StorePage without the test of line 169
StoreAlways(d, title, page_data) == DictAssign(d, title, page_data)

\* lines 169-170
StorePage(d, title, page_data) == IF page_data # << >> THEN DictAssign(d, title, page_data) ELSE d

\* a line written to standard output
Line(kind, title, cells) == [kind |-> kind, page |-> title, cells |-> cells]

\* line 123: f"== {page} =="
Heading(title) == <<"=", "=", " ">> \o title \o <<" ", "=", "=">>

RECURSIVE output_print(_)
\* output_print(data): per page a heading, the dump of the records, blank lines
output_print(d) == IF d = << >> THEN << >> ELSE <<Line("heading", Head(d).page, <<Heading(Head(d).page)>>), Line("pprint", Head(d).page, Head(d).records), Line("blank", Head(d).page, << >>)>> \o output_print(Tail(d))

fieldnames == <<"page_title", "filename", "caption", "alt", "position", "type", "link", "width", "height", "orig-width", "orig-height", "mediatype", "from_template", "from_commons">>

\* lines 133-148: the header row
HeaderRow == <<<<"P", "a", "g", "e", " ", "n", "a", "m", "e">>, <<"I", "m", "a", "g", "e", " ", "n", "a", "m", "e">>, <<"C", "a", "p", "t", "i", "o", "n">>, <<"A", "l", "t", " ", "t", "e", "x", "t">>, <<"I", "n", "l", "i", "n", "e", "/", "b", "l", "o", "c", "k">>, <<"I", "m", "a", "g", "e", " ", "f", "o", "r", "m", "a", "t">>, <<"L", "i", "n", "k">>, <<"T", "h", "u", "m", "b", "n", "a", "i", "l", " ", "w", "i", "d", "t", "h">>, <<"T", "h", "u", "m", "b", "n", "a", "i", "l", " ", "h", "e", "i", "g", "h", "t">>, <<"O", "r", "i", "g", "i", "n", "a", "l", " ", "w", "i", "d", "t", "h">>, <<"O", "r", "i", "g", "i", "n", "a", "l", " ", "h", "e", "i", "g", "h", "t">>, <<"M", "e", "d", "i", "a", " ", "t", "y", "p", "e">>, <<"F", "r", "o", "m", " ", "t", "e", "m", "p", "l", "a", "t", "e", "?">>, <<"F", "r", "o", "m", " ", "c", "o", "m", "m", "o", "n", "s", "?">>>>

TrueStr == <<"T", "r", "u", "e">>

FalseStr == <<"F", "a", "l", "s", "e">>

\* what csv.DictWriter writes for one field of a row: "" for a missing key or
\* None, True/False for a bool, a string as it is
Cell(row, key) == IF key \notin DOMAIN row THEN << >>
                  ELSE IF key \in {"from_template", "from_commons"} THEN (IF row[key] THEN TrueStr ELSE FalseStr)
                  ELSE IF key \in {"filename", "link", "width", "height", "orig-width", "orig-height", "mediatype"} THEN (IF row[key] = None THEN << >> ELSE row[key][1])
                  ELSE row[key]

\* lines 151-152: the record with its page title, written in column order
CsvRow(title, image_data) == LET row == DictSet(image_data, "page_title", title) IN Line("row", title, [i \in 1..Len(fieldnames) |-> Cell(row, fieldnames[i])])

RECURSIVE CsvRows(_)
\* lines 149-152
CsvRows(d) == IF d = << >> THEN << >> ELSE [i \in 1..Len(Head(d).records) |-> CsvRow(Head(d).page, Head(d).records[i])] \o CsvRows(Tail(d))

\* output_csv(data, add_header)
output_csv(d, add_header) == (IF add_header THEN <<Line("header", << >>, HeaderRow)>> ELSE << >>) \o CsvRows(d)

\* lines 172-175
Render(output, d) == IF output = "print" THEN output_print(d) ELSE output_csv(d, output = "csv")

\* LoopFinished when the rendering also runs after an exception
LoopFinishedOrRaised == (pc = "loop" /\ idx = Len(pages)) \/ pc = "raised"

\* the for loop of main has run over every page
LoopFinished == pc = "loop" /\ idx = Len(pages)

(***************************************************************************)
(* The pages main fetches.                                                  *)
(***************************************************************************)
PlainCat == Marker("figure", MwImageThumb, None, None, <<Anchor(Some(DotCat), <<StdImg>>), Figcaption(<<Txt(ACat)>>)>>)

PlainDog == Marker("span", MwImage, None, Some(JsonObject(CaptionKey, ACat)), <<Anchor(Some(DotDog), <<Img(Some(DotDog), Some(SrcLocal), None)>>)>>)

TemplateCat == Wrap("about", Marker("figure", MwImage, None, None, <<Anchor(Some(DotCat), <<StdImg>>)>>))

\* a page without images, with one image, with an image from a template between
\* two of its own, with an image from a template only, and a page with a marker
\* of an unexpected shape after an image
MainDocs == {Document(Some(PageUri), << >>),
             Document(Some(PageUri), <<PlainCat>>),
             Document(Some(PageUri), <<PlainDog, TemplateCat, PlainCat>>),
             Document(Some(PageUri), <<TemplateCat>>),
             Document(Some(PageUri), <<PlainCat, Marker("div", MwImage, None, None, <<StdImg>>)>>)}

\* the title lists of length n
RECURSIVE TitleLists(_)
TitleLists(n) == IF n = 0 THEN {<< >>} ELSE {Append(q, t) : q \in TitleLists(n - 1), t \in Titles}

NoResult == Return(<< >>)

(***************************************************************************)
(* The program: main.                                                      *)
(***************************************************************************)
\* handle_args has parsed the command line
Init == /\ args \in [ignore_templates : BOOLEAN, output : {"print", "csv", "csv-headless"}, page : {None, Some(TitleA)}, n : 1..MaxPages]
        /\ pages = << >>
        /\ idx = 0
        /\ data = << >>
        /\ hist = << >>
        /\ stdout = << >>
        /\ pc = "start"
        /\ html = Document(None, << >>)
        /\ page = << >>
        /\ result = NoResult

\* lines 158-161: the page given, or the titles get_random_articles returns
GetPages == /\ pc = "start"
            /\ IF Truthy(args.page) THEN pages' = <<args.page[1]>> ELSE pages' \in TitleLists(args.n)
            /\ pc' = "loop"
            /\ UNCHANGED <<args, idx, data, hist, stdout, html, page, result>>

\* line 161: get_random_articles raises (transport failure, malformed response)
GetPagesRaises == /\ pc = "start"
                  /\ ~Truthy(args.page)
                  /\ pc' = "raised"
                  /\ UNCHANGED <<args, pages, idx, data, hist, stdout, html, page, result>>

\* lines 164-170: one iteration of the loop that returns from the extractor
LoopBody == /\ pc = "loop"
            /\ idx < Len(pages)
            /\ \E doc \in MainDocs :
                  LET title == pages[idx + 1]
                      r == get_image_data_from_html(doc, title)
                      page_data == FilterTemplates(r.value, args.ignore_templates)
                  IN /\ html' = doc
                     /\ page' = title
                     /\ result' = r
                     /\ IF r.ok
                        THEN /\ data' = StorePage(data, title, page_data)
                             /\ hist' = Append(hist, [page |-> title, extracted |-> r.value, kept |-> page_data])
                             /\ idx' = idx + 1
                             /\ pc' = "loop"
                        ELSE /\ pc' = "raised"
                             /\ UNCHANGED <<data, hist, idx>>
            /\ UNCHANGED <<args, pages, stdout>>

\* line 165: get_parsoid_html raises (transport failure)
FetchRaises == /\ pc = "loop"
               /\ idx < Len(pages)
               /\ page' = pages[idx + 1]
               /\ pc' = "raised"
               /\ UNCHANGED <<args, pages, idx, data, hist, stdout, html, result>>

\* lines 172-175: the rendering, after the loop
Output == /\ LoopFinished
          /\ stdout' = Render(args.output, data)
          /\ pc' = "done"
          /\ UNCHANGED <<args, pages, idx, data, hist, html, page, result>>

Next == GetPages \/ GetPagesRaises \/ LoopBody \/ FetchRaises \/ Output

Spec == Init /\ [][Next]_vars

(***************************************************************************)
(* The extractor on its own: one call of get_image_data_from_html on any   *)
(* document of Docs.                                                       *)
(***************************************************************************)
InitExtract == /\ args = [ignore_templates |-> FALSE, output |-> "print", page |-> None, n |-> 1]
               /\ pages = << >>
               /\ idx = 0
               /\ data = << >>
               /\ hist = << >>
               /\ stdout = << >>
               /\ pc = "extract"
               /\ html \in Docs
               /\ page \in Titles
               /\ result = NoResult

\* line 166: the call returns the records or raises
Extract == /\ pc = "extract"
           /\ result' = get_image_data_from_html(html, page)
           /\ pc' = "extracted"
           /\ UNCHANGED <<args, pages, idx, data, hist, stdout, html, page>>

NextExtract == Extract

SpecExtract == InitExtract /\ [][NextExtract]_vars

(***************************************************************************)
(* Properties.                                                             *)
(***************************************************************************)
\* the indexes of the loop iterations whose page kept at least one record
Yielding == {k \in 1..Len(hist) : hist[k].kept # << >>}

\* the titles that kept at least one record in some iteration
YieldingTitles == {hist[k].page : k \in Yielding}

FirstYield(title) == CHOOSE k \in Yielding : hist[k].page = title /\ \A m \in Yielding : hist[m].page = title => k <= m

LastYield(title) == CHOOSE k \in Yielding : hist[k].page = title /\ \A m \in Yielding : hist[m].page = title => m <= k

\* the lines of a rendering that belong to a page
GroupLines == SelectSeq(stdout, LAMBDA l : l.kind \in {"heading", "pprint", "blank", "row"})

\* C1: a fatal error while the pages are fetched and extracted leaves standard
\* output empty, and whatever is written is written after every page of the
\* list was processed without error.
C1_NoOutputOnFailure == /\ pc = "raised" => stdout = << >>
                        /\ stdout # << >> => pc = "done" /\ idx = Len(pages) /\ Len(hist) = Len(pages)

\* C1 witness: a page fails after an earlier page gave records, nothing written
C1_Witness == pc = "raised" /\ idx >= 1 /\ data # << >> /\ ~result.ok /\ stdout = << >>

\* C2: with --ignore-templates the records kept for a page are exactly the
\* extracted records whose from_template is false, in their extracted order;
\* without the flag the extracted sequence is kept as it is.
C2_FilterKeepsOrder == \A k \in 1..Len(hist) :
    LET ex == hist[k].extracted
        kept == hist[k].kept
        keepIdx == {i \in 1..Len(ex) : ~ex[i]["from_template"]}
        nth(j) == CHOOSE i \in keepIdx : Cardinality({m \in keepIdx : m <= i}) = j
    IN IF args.ignore_templates
       THEN Len(kept) = Cardinality(keepIdx) /\ \A j \in 1..Len(kept) : kept[j] = ex[nth(j)]
       ELSE kept = ex

\* C2 witness: the flag is set and a template record between two others was
\* dropped
C2_Witness == \E k \in 1..Len(hist) : /\ args.ignore_templates
                                      /\ Len(hist[k].extracted) = 3
                                      /\ hist[k].extracted[2]["from_template"]
                                      /\ hist[k].kept = <<hist[k].extracted[1], hist[k].extracted[3]>>

\* C3: every title of the mapping has a non-empty record sequence and kept
\* records in some iteration; every page group written to standard output is
\* the group of such a title and no dump of records is empty.
C3_NoEmptyPages == /\ \A i \in 1..Len(data) : data[i].records # << >> /\ data[i].page \in YieldingTitles
                   /\ \A i \in 1..Len(GroupLines) : GroupLines[i].page \in YieldingTitles
                   /\ \A i \in 1..Len(stdout) : stdout[i].kind = "pprint" => stdout[i].cells # << >>

\* C3 witness: a page lost all its records to the filter and the rendering,
\* which is not empty, has no line for it
C3_Witness == /\ pc = "done"
              /\ GroupLines # << >>
              /\ \E k \in 1..Len(hist) : /\ hist[k].extracted # << >>
                                         /\ hist[k].kept = << >>
                                         /\ \A i \in 1..Len(stdout) : stdout[i].page # hist[k].page

\* position of a title in the mapping
DataIndex(title) == CHOOSE i \in 1..Len(data) : data[i].page = title

\* C10: each title that kept records has one group; the groups are in the order
\* of the titles' first record-yielding occurrences and each holds the records
\* of the title's last record-yielding occurrence; the rendering writes the
\* groups in that order, one after the other.
C10_OneGroupPerTitle == /\ {data[i].page : i \in 1..Len(data)} = YieldingTitles
                        /\ \A i, j \in 1..Len(data) : i < j => data[i].page # data[j].page /\ FirstYield(data[i].page) < FirstYield(data[j].page)
                        /\ \A i \in 1..Len(data) : data[i].records = hist[LastYield(data[i].page)].kept
                        /\ pc = "done" /\ args.output = "print" => stdout = [n \in 1..(3 * Len(data)) |->
                              LET d == data[((n - 1) \div 3) + 1] IN
                              CASE n % 3 = 1 -> Line("heading", d.page, <<Heading(d.page)>>)
                                [] n % 3 = 2 -> Line("pprint", d.page, d.records)
                                [] OTHER -> Line("blank", d.page, << >>)]
                        /\ pc = "done" /\ args.output # "print" =>
                              /\ \A i, j \in 1..Len(GroupLines) : i < j => DataIndex(GroupLines[i].page) <= DataIndex(GroupLines[j].page)
                              /\ \A i \in 1..Len(data) : Cardinality({n \in 1..Len(GroupLines) : GroupLines[n].page = data[i].page}) = Len(data[i].records)

\* C10 witness: a title occurs first and third with different records, another
\* title between them; its group comes first and holds the third's records
C10_Witness == /\ pc = "done"
               /\ Len(pages) = 3
               /\ pages[1] = pages[3] /\ pages[1] # pages[2]
               /\ Yielding = {1, 2, 3}
               /\ hist[1].kept # hist[3].kept
               /\ data = <<[page |-> pages[1], records |-> hist[3].kept], [page |-> pages[2], records |-> hist[2].kept]>>
               /\ stdout # << >>

(***************************************************************************)
(* Properties of the extractor.                                            *)
(***************************************************************************)
\* the matched elements of the document, and the i-th of them
Markers == SelectImageMarkers(html)

MarkerTag(i) == NodeAt(html, Markers[i])

RECURSIVE GetText(_)
RECURSIVE ChildrenText(_, _)
\* Tag.get_text(): the text nodes of a subtree, joined in document order
GetText(node) == IF node.kind = "text" THEN node.text ELSE ChildrenText(node, 1)

ChildrenText(node, i) == IF i > Len(node.children) THEN << >> ELSE GetText(node.children[i]) \o ChildrenText(node, i + 1)

\* a raw value without a leading "./"
StripDotSlash(s) == IF StartsWith(s, <<".", "/">>) THEN SliceFrom(s, 2) ELSE s

FigureShaped(tag) == tag.name \in {"figure", "figure-inline"}

Offending(i) == MarkerTag(i).name \notin {"span", "figure", "figure-inline"}

\* C4: the record of a figure or figure-inline marker with a figcaption of
\* text T has the caption T, newlines replaced by spaces.
C4_FigcaptionText == pc = "extracted" /\ result.ok => \A i \in 1..Len(Markers) :
    LET figcaption == SelectOne(MarkerTag(i), "figcaption") IN
    FigureShaped(MarkerTag(i)) /\ figcaption # None /\ GetText(figcaption[1]) # << >>
       => /\ "caption" \in DOMAIN result.value[i]
          /\ result.value[i]["caption"] = ReplaceNewlines(GetText(figcaption[1]))

\* C5: a span marker whose data-mw is a valid JSON object (in a document where
\* nothing else can fail) gives a record, with a caption exactly when the
\* object has a non-empty caption member.
C5_SpanCaption == pc = "extracted" /\ Len(Markers) = 1 /\ MarkerTag(1).name = "span" /\ "data-mw" \in DOMAIN MarkerTag(1).attrs
    => LET parsed == json_loads(MarkerTag(1).attrs["data-mw"]) IN
       parsed.ok /\ parsed.kind = "dict" /\ Closest(html, Markers[1]) # None /\ get_attrib(MarkerTag(1), Some("img"), "src") # None
          => /\ result.ok
             /\ "caption" \in DOMAIN result.value[1] <=> (CaptionKey \in DOMAIN parsed.items /\ parsed.items[CaptionKey] # << >>)

\* some element from the marker up to, not including, the root carries
\* typeof="mw:Transclusion" or about
MatchBelowRoot(path) == \E n \in 1..Len(path) : IsTransclusionOrAbout(NodeAt(html, SubSeq(path, 1, n)))

\* C6: from_template is true exactly when the nearest element carrying the
\* transclusion marker or about is not the root; a figure with an image and
\* with no such element at all, the root included, gives a record with
\* from_template false.
C6_FromTemplate == pc = "extracted" =>
    /\ result.ok => \A i \in 1..Len(Markers) : result.value[i]["from_template"] = MatchBelowRoot(Markers[i])
    /\ Len(Markers) = 1 /\ FigureShaped(MarkerTag(1)) /\ get_attrib(MarkerTag(1), Some("img"), "src") # None /\ ~MatchBelowRoot(Markers[1]) /\ ~IsTransclusionOrAbout(html)
          => result.ok /\ result.value[1]["from_template"] = FALSE

\* C7: a record has a link field only if the marker has an anchor href and the
\* stored link differs from the stored filename.
C7_LinkOnlyIfDiffers == pc = "extracted" /\ result.ok => \A i \in 1..Len(Markers) :
    "link" \in DOMAIN result.value[i] => /\ get_attrib(MarkerTag(i), Some("a"), "href") # None
                                         /\ result.value[i]["link"] # result.value[i]["filename"]

\* C8: the stored filename and link are the raw resource and href with a
\* leading "./" removed, and unchanged when they do not begin with "./".
C8_OnlyDotSlashStripped == pc = "extracted" /\ result.ok => \A i \in 1..Len(Markers) :
    LET resource == get_attrib(MarkerTag(i), Some("img"), "resource")
        href == get_attrib(MarkerTag(i), Some("a"), "href")
    IN /\ resource # None => result.value[i]["filename"] = Some(StripDotSlash(resource[1]))
       /\ href # None /\ "link" \in DOMAIN result.value[i] => result.value[i]["link"] = Some(StripDotSlash(href[1]))

\* no matched element of the document runs into the missing-caption-member or
\* the missing-about failure
NoKeyOrAboutFailure == /\ IsTransclusionOrAbout(html)
                       /\ \A i \in 1..Len(Markers) : MarkerTag(i).name = "span" /\ Truthy(get_attrib(MarkerTag(i), None, "data-mw")) /\ json_loads(MarkerTag(i).attrs["data-mw"]).ok
                             => json_loads(MarkerTag(i).attrs["data-mw"]).kind = "dict" /\ CaptionKey \in DOMAIN json_loads(MarkerTag(i).attrs["data-mw"]).items

\* C9 as claimed: a matched element of another tag name makes the call fail,
\* without records, with the error that names that tag and the page title.
C9_ErrorNamesTag == pc = "extracted" /\ NoKeyOrAboutFailure /\ (\E i \in 1..Len(Markers) : Offending(i))
    => /\ ~result.ok
       /\ result.value = << >>
       /\ result.error.type = "Exception" /\ result.error.detail = "Unexpected tag" /\ result.error.page = page
       /\ \E i \in 1..Len(Markers) : Offending(i) /\ result.error.tag = MarkerTag(i).name

FirstOffending == CHOOSE j \in 1..Len(Markers) : Offending(j) /\ \A i \in 1..(j - 1) : ~Offending(i)

\* C9 amended: a matched element of another tag name makes the call fail
\* without records; the error is the one naming the first such element's tag
\* and the page title when no matched element before it fails and that
\* element has the transclusion marker or about on itself or an ancestor.
C9_FailsWithoutRecords == pc = "extracted" /\ (\E i \in 1..Len(Markers) : Offending(i))
    => /\ ~result.ok
       /\ result.value = << >>
       /\ (\A i \in 1..(FirstOffending - 1) : ItemData(html, Markers[i], page).ok) /\ Closest(html, Markers[FirstOffending]) # None
             => result.error = Error("Exception", "Unexpected tag", MarkerTag(FirstOffending).name, page)

\* C9 witness: an element of another tag name after a marker that gave a
\* record; the call fails with the error naming it
C9_Witness == /\ pc = "extracted"
              /\ Len(Markers) = 2
              /\ ~Offending(1) /\ Offending(2)
              /\ ItemData(html, Markers[1], page).ok
              /\ ~result.ok /\ result.value = << >>
              /\ result.error = Error("Exception", "Unexpected tag", "div", page)

====
